---- MODULE Spec2Model ----
(***************************************************************************)
(* Model of the wallet watcher (src/watcher.py): the polling loop          *)
(* poll_watch_wallet with its cursor file, novelty filter, notifier,       *)
(* backoff ladder and heartbeat, and the token metadata cache.             *)
(*                                                                         *)
(* One loop iteration is split at the points where the process can be      *)
(* killed with a different outcome: before the fetch, before each          *)
(* transaction of the batch, between send_telegram_text and                *)
(* save_last_signature, and before the tail of the iteration.  An          *)
(* exception handler (its sleep included) runs inside the action that      *)
(* raises.                                                                 *)
(***************************************************************************)
EXTENDS Integers, Sequences, FiniteSets, TLC

VARIABLES
    pc,             \* position of the process in poll_watch_wallet
    feed,           \* number of transactions the upstream feed holds so far
    file,           \* content of STATE_FILE (last_sig.json)
    last_sig,       \* poll_watch_wallet's local last_sig
    retry_delay,    \* poll_watch_wallet's local retry_delay
    hb_due,         \* whether time.time() - last_heartbeat > 300 would hold now
    txs,            \* the window returned by the last fetch
    txs_sorted,     \* the window sorted by timestamp
    new_batch,      \* the part of new_batch the for loop has not reached yet
    sent,           \* history: calls of send_telegram_text per signature
    cycle_log,      \* history: notify / persist events of the current cycle
    cursor0,        \* history: last_sig when the current cycle's fetch returned
    outcome,        \* history: how the last loop iteration ended
    last_sleep,     \* history: argument of the time.sleep that ended the last iteration
    rl_count,       \* history: 429 answers since the last fetch that returned, or since start
    clean,          \* history: no kill and no exception inside a batch so far
    recovery,       \* history: what had been alerted when the process was killed
                    \* inside a batch, until the first batch after the restart ends
    token_cache,    \* the module-level dict _token_cache
    meta_calls,     \* history: requests.post calls of fetch_token_metadata per mint
    meta_first,     \* history: what the first remote lookup of each mint gave
    meta_ret,       \* history: the last call of fetch_token_metadata and its return value
    enrich_tx,      \* the transaction extract_token_details is called with
    details,        \* what extract_token_details returned for it
    consulted,      \* history: whether that call went to fetch_token_metadata, and
                    \* whether the cache answered ("no", "hit", "miss")
    conv_state,     \* bot.py: state of the ConversationHandler for the chat
    user_data,      \* bot.py: context.user_data of the user (a dict)
    keyboards,      \* bot.py: messages of the chat that still show an inline keyboard,
                    \* counted per kind of keyboard
    entered,        \* history: keys of user_data written by a text since the last /start
    last_swap       \* history: the last call of perform_swap_stub

loopVars == <<pc, feed, file, last_sig, retry_delay, hb_due, txs, txs_sorted,
              new_batch, sent, cycle_log, cursor0, outcome, last_sleep, rl_count,
              clean, recovery>>

cacheVars == <<token_cache, meta_calls, meta_first, meta_ret>>

enrichVars == <<enrich_tx, details, consulted>>

botVars == <<conv_state, user_data, keyboards, entered, last_swap>>

vars == <<loopVars, cacheVars, enrichVars, botVars>>

(***************************************************************************)
(* Program constants                                                       *)
(***************************************************************************)
POLL_INTERVAL_SEC == 20
MAX_BACKOFF == 300
NETWORK_RETRY_SEC == 10
ERROR_RETRY_SEC == 5

(***************************************************************************)
(* Bounds of the model                                                     *)
(***************************************************************************)
\* transactions the feed comes to hold (at most Len(Chain))
MaxFeed == 4
\* the limit of fetch_recent_transactions (20 in the code)
FetchLimit == 3
\* 429 answers in a row that the feed gives before it answers otherwise
MaxRateLimits == 5

(***************************************************************************)
(* Values                                                                  *)
(***************************************************************************)
None == "None"
Absent == "absent"      \* STATE_FILE does not exist
Corrupt == "corrupt"    \* STATE_FILE exists but holds no JSON object (truncated)

\* The upstream feed in order of arrival.  A transaction is a dict; one
\* without a "timestamp" key has no such field.  None of these carries
\* "tokenTransfers", so extract_token_details finds no mint for them and does
\* not call fetch_token_metadata.
Chain ==
    << [signature |-> "A", timestamp |-> 100],
       [signature |-> "B", timestamp |-> 200],
       [signature |-> "C", timestamp |-> 200],
       [signature |-> "D"],
       [signature |-> "E", timestamp |-> 300] >>

Sigs == {Chain[i].signature : i \in 1..Len(Chain)}

Min(a, b) == IF a <= b THEN a ELSE b
Max(a, b) == IF a >= b THEN a ELSE b

Reverse(s) == [i \in 1..Len(s) |-> s[Len(s) + 1 - i]]

\* The newest FetchLimit transactions of a feed of n transactions, oldest first
Window(n) == SubSeq(Chain, Max(1, n - FetchLimit + 1), n)

\* What fetch_recent_transactions may return for that feed: the window, oldest
\* first or newest first
Responses(n) == {Window(n), Reverse(Window(n))}

(***************************************************************************)
(* Cursor store                                                            *)
(***************************************************************************)
\* load_last_signature: None when the file is missing or unreadable
load_last_signature(f) == IF f \in {Absent, Corrupt} THEN None ELSE f

\* save_last_signature: the file content after a completed save
save_last_signature(sig) == sig

(***************************************************************************)
(* Novelty filter                                                          *)
(***************************************************************************)
\* key=lambda t: t.get("timestamp", 0)
TsKey(t) == IF "timestamp" \in DOMAIN t THEN t.timestamp ELSE 0

\* a sort that is not stable: t goes before the elements of its own key
InsertByTsUnstable(s, t) ==
    LET k == Cardinality({i \in 1..Len(s) : TsKey(s[i]) < TsKey(t)})
    IN  SubSeq(s, 1, k) \o <<t>> \o SubSeq(s, k + 1, Len(s))

\* one step of a stable sort: t goes behind every element whose key is <= its own
InsertByTs(s, t) ==
    LET k == Cardinality({i \in 1..Len(s) : TsKey(s[i]) <= TsKey(t)})
    IN  SubSeq(s, 1, k) \o <<t>> \o SubSeq(s, k + 1, Len(s))

RECURSIVE SortRec(_)
SortRec(s) ==
    IF s = <<>> THEN <<>>
    ELSE InsertByTs(SortRec(SubSeq(s, 1, Len(s) - 1)), s[Len(s)])

\* sorted(txs, key=lambda t: t.get("timestamp", 0))
sorted_by_timestamp(s) == SortRec(s)

IsNotCursor(t, cur) == t.signature # cur

\* new_batch of one cycle
select_new(sorted, cur) ==
    IF cur # None
    THEN SelectSeq(sorted, LAMBDA t : IsNotCursor(t, cur))
    ELSE sorted

(***************************************************************************)
(* Backoff                                                                 *)
(***************************************************************************)
\* a ladder without its cap
next_retry_delay_uncapped(d) == d * 2

\* retry_delay = min(retry_delay * 2, MAX_BACKOFF)
next_retry_delay(d) == Min(d * 2, MAX_BACKOFF)

(***************************************************************************)
(* Token metadata lookup (fetch_token_metadata, _token_cache)              *)
(***************************************************************************)
Mints == {"Mx", "My", "Mz"}

Unknown == "unknown"
UnknownIdentity == <<Unknown, Unknown>>
\* mint not in _token_cache
NotCached == <<>>

\* "name" / "symbol" of onChainMetadata.metadata.data as the endpoint may give
\* them: no such field, blank, padded, plain
RawNames == {None, " ", "Bonk ", "Bonk"}
RawSymbols == {None, "", "BONK"}

\* What the metadata request can come to:
\*   raise      requests.post / raise_for_status / resp.json() raises
\*   empty      the JSON is []
\*   notlist    the JSON is not a list
\*   malformed  data[0] has a null where a dict is expected (.get raises)
\*   entry      data[0] is a metadata entry
MetaResponses ==
    [kind : {"raise", "empty", "notlist", "malformed"}, name : {None}, symbol : {None}]
    \cup [kind : {"entry"}, name : RawNames, symbol : RawSymbols]

\* str.strip() on the strings of the model
strip(v) ==
    CASE v = " " -> ""
      [] v = "Bonk " -> "Bonk"
      [] OTHER -> v

\* truth value of an Optional[str]
Truthy(v) == v # None /\ v # ""

\* if name: name = name.strip()
stripped(v) == IF Truthy(v) THEN strip(v) ELSE v

\* name or "unknown"
or_unknown(v) == IF Truthy(v) THEN v ELSE Unknown

\* the pair fetch_token_metadata stores and returns for a response
lookup_result(r) ==
    IF r.kind = "entry"
    THEN <<or_unknown(stripped(r.name)), or_unknown(stripped(r.symbol))>>
    ELSE UnknownIdentity

\* a lookup that stores nothing when the response gives no entry
cache_after_no_negative(cache, mint, r) ==
    IF r.kind = "entry" THEN [cache EXCEPT ![mint] = lookup_result(r)] ELSE cache

\* _token_cache after a miss on mint answered by r
cache_after(cache, mint, r) == [cache EXCEPT ![mint] = lookup_result(r)]

\* how the first lookup of a mint went: the response kind, "missing" for an
\* entry that has neither name nor symbol, "ok" for any other entry
first_outcome(r) ==
    IF r.kind # "entry" THEN r.kind
    ELSE IF r.name = None /\ r.symbol = None THEN "missing"
    ELSE "ok"

FailedOutcomes == {"raise", "empty", "notlist", "malformed", "missing"}

NoCall == [mint |-> None, value |-> NotCached, remote |-> FALSE]

(***************************************************************************)
(* Token detail extraction (extract_token_details)                         *)
(***************************************************************************)
\* transfers in the tokenTransfers list of a transaction
MaxTransfers == 2

WATCH_WALLET == "W"

\* who a transfer is from and to
Parties == {<<"W", "X">>, <<"X", "W">>, <<"X", "Y">>}

\* the inline naming of a transfer: token.name, token.symbol, tokenName,
\* tokenSymbol (None: no such field).  One of them carries a name that is
\* the string "unknown".
Namings ==
    { [token_name |-> None, token_symbol |-> None, tokenName |-> None, tokenSymbol |-> None],
      [token_name |-> "TokA", token_symbol |-> "SYA", tokenName |-> "TokB", tokenSymbol |-> None],
      [token_name |-> None, token_symbol |-> None, tokenName |-> "TokB", tokenSymbol |-> None],
      [token_name |-> None, token_symbol |-> None, tokenName |-> "unknown", tokenSymbol |-> "SYB"] }

TransferMints == {None, "Mx", "My"}

Transfers ==
    { [fromUserAccount |-> p[1], toUserAccount |-> p[2], mint |-> m,
       token_name |-> n.token_name, token_symbol |-> n.token_symbol,
       tokenName |-> n.tokenName, tokenSymbol |-> n.tokenSymbol] :
         p \in Parties, m \in TransferMints, n \in Namings }

TransferLists == UNION {[1..k -> Transfers] : k \in 0..MaxTransfers}

\* the transactions extract_token_details is called with: one that has only a
\* signature, and the ones with a timestamp and a tokenTransfers list
EnrichTxs ==
    {[signature |-> "S"]}
    \cup {[signature |-> "S", timestamp |-> 100, tokenTransfers |-> l] : l \in TransferLists}

NoTx == [signature |-> None]
NoDetails == [signature |-> None]

\* datetime.fromtimestamp(ts, tz=timezone.utc).isoformat() on the timestamps
\* of the model
ts_to_iso(ts) ==
    CASE ts = 100 -> "1970-01-01T00:01:40+00:00"
      [] ts = 200 -> "1970-01-01T00:03:20+00:00"
      [] ts = 300 -> "1970-01-01T00:05:00+00:00"
      [] OTHER -> "1970-01-01T00:00:00+00:00"

\* iso_time = ts_to_iso(timestamp) if timestamp else "unknown"
iso_time(tx) ==
    IF "timestamp" \in DOMAIN tx /\ tx.timestamp # 0
    THEN ts_to_iso(tx.timestamp) ELSE Unknown

\* tx.get("tokenTransfers") or []
transfers_of(tx) == IF "tokenTransfers" \in DOMAIN tx THEN tx.tokenTransfers ELSE <<>>

\* t.get("fromUserAccount") == WATCH_WALLET or t.get("toUserAccount") == WATCH_WALLET
touches_wallet(t) == t.fromUserAccount = WATCH_WALLET \/ t.toUserAccount = WATCH_WALLET

\* a choice that takes the first transfer, whoever it is from and to
candidate_first(trs) == IF trs = <<>> THEN 0 ELSE 1

\* the place of candidate in the list, 0 when there is none: the first
\* transfer that touches the wallet, else the first transfer
candidate(trs) ==
    LET hits == {i \in 1..Len(trs) : touches_wallet(trs[i])}
    IN  IF hits # {} THEN CHOOSE i \in hits : \A j \in hits : i <= j
        ELSE IF trs # <<>> THEN 1
        ELSE 0

\* a or b or c on Optional[str] values
first_truthy(a, b, c) == IF Truthy(a) THEN a ELSE IF Truthy(b) THEN b ELSE c

\* mint, token_name and ticker after lines 107-124
inline_mint(trs) ==
    IF candidate(trs) = 0 THEN Unknown
    ELSE first_truthy(trs[candidate(trs)].mint, None, Unknown)

inline_name(trs) ==
    IF candidate(trs) = 0 THEN Unknown
    ELSE first_truthy(trs[candidate(trs)].token_name, trs[candidate(trs)].tokenName, Unknown)

inline_ticker(trs) ==
    IF candidate(trs) = 0 THEN Unknown
    ELSE first_truthy(trs[candidate(trs)].token_symbol, trs[candidate(trs)].tokenSymbol, Unknown)

\* line 126: whether fetch_token_metadata is called
needs_lookup(trs) ==
    /\ inline_mint(trs) # Unknown
    /\ (inline_name(trs) = Unknown \/ inline_ticker(trs) = Unknown)

\* the dict extract_token_details returns when the metadata (if asked for) is meta
alert_record(tx, meta) ==
    LET trs == transfers_of(tx) IN
    [signature |-> tx.signature,
     time |-> iso_time(tx),
     token_name |-> IF needs_lookup(trs) /\ inline_name(trs) = Unknown
                    THEN meta[1] ELSE inline_name(trs),
     ticker |-> IF needs_lookup(trs) /\ inline_ticker(trs) = Unknown
                THEN meta[2] ELSE inline_ticker(trs),
     mint |-> inline_mint(trs)]

(***************************************************************************)
(* Order-intake conversation (src/bot.py)                                  *)
(***************************************************************************)
\* messages of one kind that show their keyboard at the same time
MaxKeyboards == 2

END == "END"
AskStates == {"BUY_ASK_MINT", "BUY_ASK_AMOUNT", "SELL_ASK_MINT", "SELL_ASK_AMOUNT"}

\* main_menu_keyboard and confirm_keyboard("BUY") / confirm_keyboard("SELL")
KeyboardKinds == {"menu", "BUY", "SELL"}
ButtonsOf(kind) ==
    IF kind = "menu" THEN {"BUY", "SELL", "CANCEL"}
    ELSE {kind \o "_CONFIRM", "BACK", "CANCEL"}

\* Text messages, by what the handlers read of them: the length of the
\* stripped text, whether a space is left inside it, whether float() parses
\* it and to what (in thousandths)
Texts ==
    { [text |-> "So11111111111111111111111111111111111111112", len |-> 43, space |-> FALSE, num |-> FALSE, milli |-> 0],
      [text |-> "12345678901234567890123456789012", len |-> 32, space |-> FALSE, num |-> TRUE, milli |-> 1000],
      [text |-> "EPjFWdd5AufqSSqeM2qN1xzy bapC8G4wEGGkZwyTDt1v", len |-> 45, space |-> TRUE, num |-> FALSE, milli |-> 0],
      [text |-> "short", len |-> 5, space |-> FALSE, num |-> FALSE, milli |-> 0],
      [text |-> "0.05", len |-> 4, space |-> FALSE, num |-> TRUE, milli |-> 50],
      [text |-> "0", len |-> 1, space |-> FALSE, num |-> TRUE, milli |-> 0],
      [text |-> "-1", len |-> 2, space |-> FALSE, num |-> TRUE, milli |-> -1000] }

\* len(mint.strip()) >= 32 and " " not in mint
is_valid_mint(t) == t.len >= 32 /\ ~t.space

\* parse_amount gives a value: float() parses the text and the value is > 0
amount_parses(t) == t.num /\ t.milli > 0
parse_amount(t) == t.milli

\* dict operations on context.user_data
EmptyDict == [k \in {} |-> None]
Put(d, k, v) == [x \in DOMAIN d \cup {k} |-> IF x = k THEN v ELSE d[x]]
Pop(d, k) == [x \in DOMAIN d \ {k} |-> d[x]]

\* a message with a keyboard of this kind is sent / loses its keyboard
Shown(kb, kind) == [kb EXCEPT ![kind] = Min(@ + 1, MaxKeyboards)]
Removed(kb, kind) == [kb EXCEPT ![kind] = @ - 1]

NoSwap == [state |-> "none"]

\* perform_swap_stub: whether the call reports success
perform_swap_stub(direction, has_amount_sol, has_amount_tokens) ==
    \/ direction = "BUY" /\ has_amount_sol
    \/ direction = "SELL" /\ has_amount_tokens

\* the call made by buy_confirm / sell_confirm, as it is recorded
SwapCall(direction) ==
    [state |-> conv_state,
     direction |-> direction,
     data |-> user_data,
     entered |-> entered,
     ok |-> IF direction = "BUY"
            THEN perform_swap_stub(direction, "amount" \in DOMAIN user_data, FALSE)
            ELSE perform_swap_stub(direction, FALSE, "amount" \in DOMAIN user_data)]

(***************************************************************************)
(* History bookkeeping                                                     *)
(***************************************************************************)
\* one more call for sig; a count of 2 stands for "more than once"
Bump(cnt, sig) == [cnt EXCEPT ![sig] = Min(@ + 1, 2)]

NoRecovery == [active |-> FALSE, plain |-> FALSE, alerted |-> {}]
\* p: where the process was killed, f: the file it left, cnt: the calls so far,
\* c: whether this kill is the first fault of the run; a kill is plain when it
\* is the first fault and leaves the cursor file whole
Killed(p, f, cnt, c) ==
    IF p \in {"loop", "save"}
    THEN [active |-> TRUE, plain |-> (c /\ f # Corrupt),
          alerted |-> {s \in Sigs : cnt[s] > 0}]
    ELSE NoRecovery

Notify(sig, res) == [ev |-> "notify", sig |-> sig, res |-> res]
Persist(sig) == [ev |-> "persist", sig |-> sig, res |-> "ok"]

(***************************************************************************)
(* Initial state: first run, no cursor file, process about to enter        *)
(* poll_watch_wallet                                                       *)
(***************************************************************************)
Init ==
    /\ pc = "start"
    /\ feed = 0
    /\ file = Absent
    /\ last_sig = None
    /\ retry_delay = POLL_INTERVAL_SEC
    /\ hb_due = FALSE
    /\ txs = <<>>
    /\ txs_sorted = <<>>
    /\ new_batch = <<>>
    /\ sent = [s \in Sigs |-> 0]
    /\ cycle_log = <<>>
    /\ cursor0 = None
    /\ outcome = "none"
    /\ last_sleep = 0
    /\ rl_count = 0
    /\ clean = TRUE
    /\ recovery = NoRecovery
    /\ token_cache = [m \in Mints |-> NotCached]
    /\ meta_calls = [m \in Mints |-> 0]
    /\ meta_first = [m \in Mints |-> "none"]
    /\ meta_ret = NoCall
    /\ enrich_tx = NoTx
    /\ details = NoDetails
    /\ consulted = "no"
    /\ conv_state = END
    /\ user_data = EmptyDict
    /\ keyboards = [k \in KeyboardKinds |-> 0]
    /\ entered = {}
    /\ last_swap = NoSwap

\* end of a loop iteration: its locals are not read again, and the history of
\* the cycle starts afresh
ClearCycle ==
    /\ txs' = <<>>
    /\ txs_sorted' = <<>>
    /\ new_batch' = <<>>
    /\ cycle_log' = <<>>
    /\ cursor0' = None

\* an except branch that lets the exception out of poll_watch_wallet
HandlerReraises(kind, d) ==
    /\ pc' = "exited"
    /\ outcome' = kind
    /\ last_sleep' = d
    /\ UNCHANGED hb_due

\* an except branch of the loop: sleep d, back to the top of while True
Handler(kind, d) ==
    /\ pc' = "fetch"
    /\ outcome' = kind
    /\ last_sleep' = d
    /\ UNCHANGED hb_due

\* history of an iteration that an exception inside the batch ended
BatchAborted ==
    /\ clean' = FALSE
    /\ recovery' = NoRecovery

(***************************************************************************)
(* Environment: a transaction reaches the feed                             *)
(***************************************************************************)
NewTx ==
    /\ feed < MaxFeed
    /\ feed < Len(Chain)
    /\ feed' = feed + 1
    /\ UNCHANGED <<pc, file, last_sig, retry_delay, hb_due, txs, txs_sorted,
                   new_batch, sent, cycle_log, cursor0, outcome, last_sleep, rl_count,
          clean, recovery>>
    /\ UNCHANGED <<cacheVars, enrichVars, botVars>>

\* Environment: during the sleep that ended the last iteration the wall clock
\* passed last_heartbeat + 300
IntervalElapses ==
    /\ pc = "fetch"
    /\ last_sleep > 0
    /\ ~hb_due
    /\ hb_due' = TRUE
    /\ UNCHANGED <<pc, feed, file, last_sig, retry_delay, txs, txs_sorted,
                   new_batch, sent, cycle_log, cursor0, outcome, last_sleep, rl_count,
          clean, recovery>>
    /\ UNCHANGED <<cacheVars, enrichVars, botVars>>

(***************************************************************************)
(* poll_watch_wallet, lines 143-147                                        *)
(***************************************************************************)
Start ==
    /\ pc = "start"
    /\ last_sig' = load_last_signature(file)
    /\ retry_delay' = POLL_INTERVAL_SEC
    /\ hb_due' = FALSE
    /\ pc' = "fetch"
    /\ rl_count' = 0
    /\ UNCHANGED <<feed, file, txs, txs_sorted, new_batch, sent, cycle_log,
                   cursor0, outcome, last_sleep, clean, recovery>>
    /\ UNCHANGED <<cacheVars, enrichVars, botVars>>

(***************************************************************************)
(* fetch_recent_transactions returns a window (lines 151-158)              *)
(***************************************************************************)
FetchOk ==
    /\ pc = "fetch"
    /\ \E w \in Responses(feed) :
          /\ txs' = w
          /\ txs_sorted' = IF w # <<>> THEN sorted_by_timestamp(w) ELSE <<>>
          /\ new_batch' = IF w # <<>>
                          THEN select_new(sorted_by_timestamp(w), last_sig)
                          ELSE <<>>
          /\ pc' = IF w # <<>> /\ select_new(sorted_by_timestamp(w), last_sig) # <<>>
                   THEN "loop" ELSE "tail"
    /\ cycle_log' = <<>>
    /\ cursor0' = last_sig
    /\ outcome' = "running"
    /\ last_sleep' = 0
    /\ rl_count' = 0
    /\ UNCHANGED <<feed, file, last_sig, retry_delay, hb_due, sent, clean,
                   recovery>>
    /\ UNCHANGED <<cacheVars, enrichVars, botVars>>

(***************************************************************************)
(* fetch_recent_transactions raises (lines 190-205)                        *)
(***************************************************************************)
\* a 429 branch that also forgets the cursor
FetchRateLimitedDropsCursor ==
    /\ pc = "fetch"
    /\ rl_count < MaxRateLimits
    /\ Handler("ratelimited", retry_delay)
    /\ retry_delay' = next_retry_delay(retry_delay)
    /\ rl_count' = rl_count + 1
    /\ ClearCycle
    /\ last_sig' = None
    /\ UNCHANGED <<feed, file, sent, clean, recovery>>
    /\ UNCHANGED <<cacheVars, enrichVars, botVars>>

\* HTTPError with status 429
FetchRateLimited ==
    /\ pc = "fetch"
    /\ rl_count < MaxRateLimits
    /\ Handler("ratelimited", retry_delay)
    /\ retry_delay' = next_retry_delay(retry_delay)
    /\ rl_count' = rl_count + 1
    /\ ClearCycle
    /\ UNCHANGED <<feed, file, last_sig, sent, clean, recovery>>
    /\ UNCHANGED <<cacheVars, enrichVars, botVars>>

\* HTTPError with another status (5xx, 401, 400)
FetchHttpError ==
    /\ pc = "fetch"
    /\ Handler("http", NETWORK_RETRY_SEC)
    /\ ClearCycle
    /\ UNCHANGED <<feed, file, last_sig, retry_delay, sent, rl_count, clean,
                   recovery>>
    /\ UNCHANGED <<cacheVars, enrichVars, botVars>>

\* a network-error branch that sleeps the backoff delay and resets it
FetchNetworkErrorBacksOff ==
    /\ pc = "fetch"
    /\ Handler("network", retry_delay)
    /\ retry_delay' = POLL_INTERVAL_SEC
    /\ ClearCycle
    /\ UNCHANGED <<feed, file, last_sig, sent, rl_count, clean, recovery>>
    /\ UNCHANGED <<cacheVars, enrichVars, botVars>>

\* another requests.RequestException (connection error, timeout)
FetchNetworkError ==
    /\ pc = "fetch"
    /\ Handler("network", NETWORK_RETRY_SEC)
    /\ ClearCycle
    /\ UNCHANGED <<feed, file, last_sig, retry_delay, sent, rl_count, clean,
                   recovery>>
    /\ UNCHANGED <<cacheVars, enrichVars, botVars>>

\* any other Exception
FetchOtherError ==
    /\ pc = "fetch"
    /\ Handler("error", ERROR_RETRY_SEC)
    /\ ClearCycle
    /\ UNCHANGED <<feed, file, last_sig, retry_delay, sent, rl_count, clean,
                   recovery>>
    /\ UNCHANGED <<cacheVars, enrichVars, botVars>>

(***************************************************************************)
(* One transaction of the batch, lines 160-171                             *)
(***************************************************************************)
\* extract_token_details raises
EnrichRaises ==
    /\ pc = "loop"
    /\ Handler("error", ERROR_RETRY_SEC)
    /\ ClearCycle
    /\ BatchAborted
    /\ UNCHANGED <<feed, file, last_sig, retry_delay, sent, rl_count>>
    /\ UNCHANGED <<cacheVars, enrichVars, botVars>>

\* send_telegram_text returns: status 200 or another status (printed only)
SendReturns ==
    /\ pc = "loop"
    /\ \E res \in {"ok", "non200"} :
          cycle_log' = Append(cycle_log, Notify(Head(new_batch).signature, res))
    /\ sent' = Bump(sent, Head(new_batch).signature)
    /\ last_sig' = Head(new_batch).signature
    /\ pc' = "save"
    /\ UNCHANGED <<feed, file, retry_delay, hb_due, txs, txs_sorted, new_batch,
                   cursor0, outcome, last_sleep, rl_count, clean, recovery>>
    /\ UNCHANGED <<cacheVars, enrichVars, botVars>>

\* requests.post inside send_telegram_text raises (connection error, timeout)
SendRaises ==
    /\ pc = "loop"
    /\ sent' = Bump(sent, Head(new_batch).signature)
    /\ Handler("network", NETWORK_RETRY_SEC)
    /\ ClearCycle
    /\ BatchAborted
    /\ UNCHANGED <<feed, file, last_sig, retry_delay, rl_count>>
    /\ UNCHANGED <<cacheVars, enrichVars, botVars>>

(***************************************************************************)
(* save_last_signature(last_sig), line 172                                 *)
(***************************************************************************)
\* a batch loop that leaves the write of the cursor for later
SaveDeferred ==
    /\ pc = "save"
    /\ new_batch' = Tail(new_batch)
    /\ pc' = IF Tail(new_batch) # <<>> THEN "loop" ELSE "tail"
    /\ UNCHANGED <<feed, file, last_sig, retry_delay, hb_due, txs, txs_sorted,
                   sent, cycle_log, cursor0, outcome, last_sleep, rl_count,
                   clean, recovery>>
    /\ UNCHANGED <<cacheVars, enrichVars, botVars>>

Save ==
    /\ pc = "save"
    /\ file' = save_last_signature(last_sig)
    /\ cycle_log' = Append(cycle_log, Persist(last_sig))
    /\ new_batch' = Tail(new_batch)
    /\ pc' = IF Tail(new_batch) # <<>> THEN "loop" ELSE "tail"
    /\ UNCHANGED <<feed, last_sig, retry_delay, hb_due, txs, txs_sorted, sent,
                   cursor0, outcome, last_sleep, rl_count, clean, recovery>>
    /\ UNCHANGED <<cacheVars, enrichVars, botVars>>

\* open(STATE_FILE, "w") raises (file untouched) or json.dump / close raises
\* after the file was truncated
SaveRaises ==
    /\ pc = "save"
    /\ \E f \in {file, Corrupt} : file' = f
    /\ Handler("error", ERROR_RETRY_SEC)
    /\ ClearCycle
    /\ BatchAborted
    /\ UNCHANGED <<feed, last_sig, retry_delay, sent, rl_count>>
    /\ UNCHANGED <<cacheVars, enrichVars, botVars>>

(***************************************************************************)
(* Tail of a successful iteration, lines 174-188                           *)
(***************************************************************************)
NeedsRepair == txs # <<>> /\ load_last_signature(file) = None

TailOk ==
    /\ pc = "tail"
    /\ IF NeedsRepair
       THEN /\ file' = save_last_signature(txs_sorted[Len(txs_sorted)].signature)
            /\ last_sig' = txs_sorted[Len(txs_sorted)].signature
       ELSE UNCHANGED <<file, last_sig>>
    /\ retry_delay' = POLL_INTERVAL_SEC
    /\ hb_due' = FALSE
    /\ last_sleep' = POLL_INTERVAL_SEC
    /\ outcome' = IF hb_due THEN "ok_heartbeat" ELSE "ok"
    /\ pc' = "fetch"
    /\ ClearCycle
    /\ rl_count' = 0
    /\ recovery' = NoRecovery
    /\ UNCHANGED <<feed, sent, clean>>
    /\ UNCHANGED <<cacheVars, enrichVars, botVars>>

\* the save of line 177 raises
TailSaveRaises ==
    /\ pc = "tail"
    /\ NeedsRepair
    /\ \E f \in {file, Corrupt} : file' = f
    /\ Handler("error", ERROR_RETRY_SEC)
    /\ ClearCycle
    /\ BatchAborted
    /\ UNCHANGED <<feed, last_sig, retry_delay, sent, rl_count>>
    /\ UNCHANGED <<cacheVars, enrichVars, botVars>>

(***************************************************************************)
(* The process is killed and started again                                 *)
(***************************************************************************)
Crash ==
    /\ pc # "start"
    /\ pc' = "start"
    /\ \E f \in (IF pc = "save" \/ (pc = "tail" /\ NeedsRepair)
                 THEN {file, Corrupt} ELSE {file}) : file' = f
    /\ last_sig' = None
    /\ retry_delay' = POLL_INTERVAL_SEC
    /\ hb_due' = FALSE
    /\ ClearCycle
    /\ outcome' = "killed"
    /\ last_sleep' = 0
    /\ rl_count' = 0
    /\ clean' = FALSE
    /\ recovery' = Killed(pc, file', sent, clean)
    /\ UNCHANGED <<feed, sent>>
    /\ UNCHANGED <<cacheVars, enrichVars, botVars>>

\* a step of the process itself
LoopStep ==
    \/ Start
    \/ FetchOk
    \/ FetchRateLimited
    \/ FetchHttpError
    \/ FetchNetworkError
    \/ FetchOtherError
    \/ EnrichRaises
    \/ SendReturns
    \/ SendRaises
    \/ Save
    \/ SaveRaises
    \/ TailOk
    \/ TailSaveRaises

Next ==
    \/ NewTx
    \/ IntervalElapses
    \/ Start
    \/ FetchOk
    \/ FetchRateLimited
    \/ FetchHttpError
    \/ FetchNetworkError
    \/ FetchOtherError
    \/ EnrichRaises
    \/ SendReturns
    \/ SendRaises
    \/ Save
    \/ SaveRaises
    \/ TailOk
    \/ TailSaveRaises
    \/ Crash

Spec == Init /\ [][Next]_vars

(***************************************************************************)
(* fetch_token_metadata as a sequence of calls in one process, and the     *)
(* restart of the process, which empties the module-level dict             *)
(***************************************************************************)
\* lines 76-77: mint in _token_cache
CacheHit ==
    /\ \E mint \in Mints :
          /\ token_cache[mint] # NotCached
          /\ meta_ret' = [mint |-> mint, value |-> token_cache[mint], remote |-> FALSE]
    /\ UNCHANGED <<token_cache, meta_calls, meta_first>>
    /\ UNCHANGED <<loopVars, enrichVars, botVars>>

\* lines 79-96: a miss, one requests.post, the result stored and returned
CacheMiss ==
    /\ \E mint \in Mints, r \in MetaResponses :
          /\ token_cache[mint] = NotCached
          /\ meta_calls' = Bump(meta_calls, mint)
          /\ token_cache' = cache_after(token_cache, mint, r)
          /\ meta_first' = IF meta_first[mint] = "none"
                           THEN [meta_first EXCEPT ![mint] = first_outcome(r)]
                           ELSE meta_first
          /\ meta_ret' = [mint |-> mint, value |-> lookup_result(r), remote |-> TRUE]
    /\ UNCHANGED <<loopVars, enrichVars, botVars>>

\* the process ends and a new one starts: _token_cache = {}
CacheRestart ==
    /\ meta_ret # NoCall
    /\ token_cache' = [m \in Mints |-> NotCached]
    /\ meta_calls' = [m \in Mints |-> 0]
    /\ meta_first' = [m \in Mints |-> "none"]
    /\ meta_ret' = NoCall
    /\ UNCHANGED <<loopVars, enrichVars, botVars>>

NextCache ==
    \/ CacheHit
    \/ CacheMiss
    \/ CacheRestart

SpecCache == Init /\ [][NextCache]_vars

(***************************************************************************)
(* extract_token_details as calls on one transaction in one process        *)
(***************************************************************************)
InitEnrich ==
    /\ pc = "start"
    /\ feed = 0
    /\ file = Absent
    /\ last_sig = None
    /\ retry_delay = POLL_INTERVAL_SEC
    /\ hb_due = FALSE
    /\ txs = <<>>
    /\ txs_sorted = <<>>
    /\ new_batch = <<>>
    /\ sent = [s \in Sigs |-> 0]
    /\ cycle_log = <<>>
    /\ cursor0 = None
    /\ outcome = "none"
    /\ last_sleep = 0
    /\ rl_count = 0
    /\ clean = TRUE
    /\ recovery = NoRecovery
    /\ token_cache = [m \in Mints |-> NotCached]
    /\ meta_calls = [m \in Mints |-> 0]
    /\ meta_first = [m \in Mints |-> "none"]
    /\ meta_ret = NoCall
    /\ enrich_tx \in EnrichTxs
    /\ details = NoDetails
    /\ consulted = "no"
    /\ conv_state = END
    /\ user_data = EmptyDict
    /\ keyboards = [k \in KeyboardKinds |-> 0]
    /\ entered = {}
    /\ last_swap = NoSwap

\* lines 102-139 when line 126 is false: no call of fetch_token_metadata
EnrichInline ==
    /\ ~needs_lookup(transfers_of(enrich_tx))
    /\ details' = alert_record(enrich_tx, UnknownIdentity)
    /\ consulted' = "no"
    /\ UNCHANGED <<loopVars, cacheVars, enrich_tx, botVars>>

\* lines 102-139 when line 126 is true and the mint is in _token_cache
EnrichCacheHit ==
    /\ needs_lookup(transfers_of(enrich_tx))
    /\ LET mint == inline_mint(transfers_of(enrich_tx)) IN
          /\ token_cache[mint] # NotCached
          /\ meta_ret' = [mint |-> mint, value |-> token_cache[mint], remote |-> FALSE]
          /\ details' = alert_record(enrich_tx, token_cache[mint])
    /\ consulted' = "hit"
    /\ UNCHANGED <<token_cache, meta_calls, meta_first>>
    /\ UNCHANGED <<loopVars, enrich_tx, botVars>>

\* lines 102-139 when line 126 is true and the mint is not in _token_cache
EnrichCacheMiss ==
    /\ needs_lookup(transfers_of(enrich_tx))
    /\ LET mint == inline_mint(transfers_of(enrich_tx)) IN
          /\ token_cache[mint] = NotCached
          /\ \E r \in MetaResponses :
                /\ meta_calls' = Bump(meta_calls, mint)
                /\ token_cache' = cache_after(token_cache, mint, r)
                /\ meta_first' = IF meta_first[mint] = "none"
                                 THEN [meta_first EXCEPT ![mint] = first_outcome(r)]
                                 ELSE meta_first
                /\ meta_ret' = [mint |-> mint, value |-> lookup_result(r), remote |-> TRUE]
                /\ details' = alert_record(enrich_tx, lookup_result(r))
    /\ consulted' = "miss"
    /\ UNCHANGED <<loopVars, enrich_tx, botVars>>

NextEnrich ==
    \/ EnrichInline
    \/ EnrichCacheHit
    \/ EnrichCacheMiss

SpecEnrich == InitEnrich /\ [][NextEnrich]_vars

(***************************************************************************)
(* Handlers of src/bot.py and their wiring in build_application            *)
(***************************************************************************)
\* /start (entry point, allow_reentry=True)
start ==
    /\ user_data' = EmptyDict
    /\ keyboards' = Shown(keyboards, "menu")
    /\ conv_state' = "CHOOSING"
    /\ entered' = {}
    /\ UNCHANGED last_swap
    /\ UNCHANGED <<loopVars, cacheVars, enrichVars>>

\* /cancel (fallback of a running conversation)
cancel_all ==
    /\ conv_state # END
    /\ user_data' = EmptyDict
    /\ conv_state' = END
    /\ UNCHANGED <<keyboards, entered, last_swap>>
    /\ UNCHANGED <<loopVars, cacheVars, enrichVars>>

\* choose_action for a press of button data on a message with keyboard kind
choose_action(kind, data) ==
    /\ CASE data = "BUY" ->
              /\ user_data' = Put(user_data, "action", "BUY")
              /\ keyboards' = Removed(keyboards, kind)
              /\ conv_state' = "BUY_ASK_MINT"
         [] data = "SELL" ->
              /\ user_data' = Put(user_data, "action", "SELL")
              /\ keyboards' = Removed(keyboards, kind)
              /\ conv_state' = "SELL_ASK_MINT"
         [] data = "CANCEL" ->
              /\ user_data' = EmptyDict
              /\ keyboards' = Removed(keyboards, kind)
              /\ conv_state' = END
         [] data = "BACK" ->
              /\ user_data' = Pop(Pop(Pop(user_data, "action"), "mint"), "amount")
              /\ keyboards' = Shown(Removed(keyboards, kind), "menu")
              /\ conv_state' = "CHOOSING"
         [] OTHER ->
              /\ user_data' = user_data
              /\ keyboards' = Removed(keyboards, kind)
              /\ conv_state' = END
    /\ UNCHANGED <<entered, last_swap>>

\* a mint handler that stores whatever text it gets
receive_mint_unchecked(t, ask_mint, ask_amount) ==
    /\ user_data' = Put(user_data, "mint", t)
    /\ entered' = entered \cup {"mint"}
    /\ conv_state' = ask_amount
    /\ UNCHANGED <<keyboards, last_swap>>

\* buy_receive_mint / sell_receive_mint
receive_mint(t, ask_mint, ask_amount) ==
    /\ IF ~is_valid_mint(t)
       THEN /\ conv_state' = ask_mint
            /\ UNCHANGED <<user_data, entered>>
       ELSE /\ user_data' = Put(user_data, "mint", t)
            /\ entered' = entered \cup {"mint"}
            /\ conv_state' = ask_amount
    /\ UNCHANGED <<keyboards, last_swap>>

buy_receive_mint(t) == receive_mint(t, "BUY_ASK_MINT", "BUY_ASK_AMOUNT")
sell_receive_mint(t) == receive_mint(t, "SELL_ASK_MINT", "SELL_ASK_AMOUNT")

\* buy_receive_amount / sell_receive_amount; context.user_data["mint"] raises
\* KeyError when there is no mint, after the amount was stored
receive_amount(t, action, ask_amount, confirm) ==
    /\ IF ~amount_parses(t)
       THEN /\ conv_state' = ask_amount
            /\ UNCHANGED <<user_data, entered, keyboards>>
       ELSE /\ user_data' = Put(user_data, "amount", parse_amount(t))
            /\ entered' = entered \cup {"amount"}
            /\ IF "mint" \in DOMAIN user_data
               THEN /\ keyboards' = Shown(keyboards, action)
                    /\ conv_state' = confirm
               ELSE UNCHANGED <<keyboards, conv_state>>
    /\ UNCHANGED last_swap

buy_receive_amount(t) == receive_amount(t, "BUY", "BUY_ASK_AMOUNT", "BUY_CONFIRM")
sell_receive_amount(t) == receive_amount(t, "SELL", "SELL_ASK_AMOUNT", "SELL_CONFIRM")

\* buy_confirm / sell_confirm for a press of button data
confirm(kind, data, direction) ==
    /\ IF data = direction \o "_CONFIRM"
       THEN last_swap' = SwapCall(direction)
       ELSE UNCHANGED last_swap
    /\ user_data' = IF data \in {direction \o "_CONFIRM", "BACK", "CANCEL"}
                    THEN EmptyDict ELSE user_data
    /\ keyboards' = Removed(keyboards, kind)
    /\ conv_state' = END
    /\ UNCHANGED entered

buy_confirm(kind, data) == confirm(kind, data, "BUY")
sell_confirm(kind, data) == confirm(kind, data, "SELL")

\* the handler build_application wires for a press of button data on a
\* message of that kind, in the current state; a press no handler matches
\* changes nothing
Press(kind, data) ==
    /\ keyboards[kind] > 0
    /\ data \in ButtonsOf(kind)
    /\ \/ /\ conv_state = "CHOOSING"
          /\ data \in {"BUY", "SELL", "CANCEL", "BACK"}
          /\ choose_action(kind, data)
       \/ /\ conv_state \in AskStates
          /\ choose_action(kind, data)
       \/ /\ conv_state = "BUY_CONFIRM"
          /\ data \in {"BUY_CONFIRM", "BACK", "CANCEL"}
          /\ buy_confirm(kind, data)
       \/ /\ conv_state = "SELL_CONFIRM"
          /\ data \in {"SELL_CONFIRM", "BACK", "CANCEL"}
          /\ sell_confirm(kind, data)
    /\ UNCHANGED <<loopVars, cacheVars, enrichVars>>

OnPress == \E kind \in KeyboardKinds, data \in UNION {ButtonsOf(k) : k \in KeyboardKinds} :
              Press(kind, data)

\* a text message that is not a command, in a state that has a MessageHandler
OnText ==
    /\ \E t \in Texts :
          \/ conv_state = "BUY_ASK_MINT" /\ buy_receive_mint(t)
          \/ conv_state = "BUY_ASK_AMOUNT" /\ buy_receive_amount(t)
          \/ conv_state = "SELL_ASK_MINT" /\ sell_receive_mint(t)
          \/ conv_state = "SELL_ASK_AMOUNT" /\ sell_receive_amount(t)
    /\ UNCHANGED <<loopVars, cacheVars, enrichVars>>

NextBot ==
    \/ start
    \/ cancel_all
    \/ OnText
    \/ OnPress

SpecBot == Init /\ [][NextBot]_vars

(***************************************************************************)
(* Properties                                                              *)
(***************************************************************************)
\* the signatures notified in the current cycle, in order
RECURSIVE NotifiedSeq(_)
NotifiedSeq(log) ==
    IF log = <<>> THEN <<>>
    ELSE IF Head(log).ev = "notify"
         THEN <<Head(log).sig>> \o NotifiedSeq(Tail(log))
         ELSE NotifiedSeq(Tail(log))

Notified == {cycle_log[i].sig : i \in {j \in 1..Len(cycle_log) : cycle_log[j].ev = "notify"}}

WindowSigs == {txs[i].signature : i \in 1..Len(txs)}

\* the transaction of the feed with signature sig, and its place in the window
TxOf(sig) == CHOOSE t \in {Chain[i] : i \in 1..Len(Chain)} : t.signature = sig
PlaceOf(sig) == CHOOSE i \in 1..Len(txs) : txs[i].signature = sig

\* the timestamp a signature is ordered by (0 when the transaction has none)
TsOfSig(sig) == IF "timestamp" \in DOMAIN TxOf(sig) THEN TxOf(sig).timestamp ELSE 0

\* the signatures of the transactions that carry a timestamp
Stamped == {g \in Sigs : "timestamp" \in DOMAIN TxOf(g)}

\* C1: as long as the process is not killed and no exception ends a batch, no
\* signature is passed to send_telegram_text more than once, and when the for
\* loop of a cycle has finished every signature of its window has been passed
\* to it
C1_AlertedExactlyOnce ==
    clean =>
        /\ \A s \in Sigs : sent[s] <= 1
        /\ pc = "tail" => \A s \in WindowSigs : sent[s] >= 1

\* C2: in a cycle whose window is not empty and whose cursor is the signature
\* of a transaction of the window that no other one is newer than, nothing is
\* selected as new, nothing is notified and the cursor stays what it was
\* (stated for the runs in which no kill and no exception in a batch occurred)
C2_NewestIsCursorSelectsNothing ==
    (/\ clean
     /\ pc \in {"loop", "save", "tail"}
     /\ txs # <<>>
     /\ cursor0 \in WindowSigs
     /\ \A s \in WindowSigs : TsOfSig(s) <= TsOfSig(cursor0))
    => /\ new_batch = <<>>
       /\ cycle_log = <<>>
       /\ last_sig = cursor0

\* C3: a cycle that starts without a cursor and runs to its end notifies every
\* transaction of the window once, in ascending order of timestamp (none
\* counts as 0), transactions of equal timestamp in the order of the window,
\* and leaves the signature of the last of them in last_sig and in the file
C3_FirstRunAlertsAllAscending ==
    [][(TailOk /\ cursor0 = None /\ txs # <<>>) =>
        LET a == NotifiedSeq(cycle_log) IN
        /\ Len(a) = Len(txs)
        /\ {a[i] : i \in 1..Len(a)} = WindowSigs
        /\ \A i, j \in 1..Len(a) : i < j =>
              \/ TsOfSig(a[i]) < TsOfSig(a[j])
              \/ TsOfSig(a[i]) = TsOfSig(a[j]) /\ PlaceOf(a[i]) < PlaceOf(a[j])
        /\ last_sig' = a[Len(a)]
        /\ file' = a[Len(a)]]_vars

\* C3 witness: the for loop of a first cycle has finished on a window of three
\* transactions, one without timestamp and two of equal timestamp, that was
\* not fetched in ascending order
C3_Witness ==
    /\ pc = "tail"
    /\ cursor0 = None
    /\ Len(txs) = 3
    /\ Len(cycle_log) = 6
    /\ txs # txs_sorted
    /\ \E i \in 1..3 : "timestamp" \notin DOMAIN txs[i]
    /\ \E i, j \in 1..3 : i # j /\ TsKey(txs[i]) = TsKey(txs[j])

\* C4: whenever last_sig or the file goes from the signature of one
\* transaction to that of another, the timestamp of the new one is not smaller
\* than that of the old one (stated for transactions that carry a timestamp,
\* and for the runs in which no kill and no exception in a batch occurred)
C4_CursorNeverMovesBack ==
    [][clean =>
        /\ (last_sig \in Stamped /\ last_sig' \in Stamped)
              => TsOfSig(last_sig') >= TsOfSig(last_sig)
        /\ (file \in Stamped /\ file' \in Stamped)
              => TsOfSig(file') >= TsOfSig(file)]_vars

\* C5: after the process was killed inside a batch and started again, the
\* first batch after the restart notifies at most one of the transactions
\* that had been notified before the kill, and when its for loop has finished
\* every transaction of the window that had not been notified before the kill
\* has been notified (stated for a kill that is the first fault of the run and
\* leaves the cursor file whole)
C5_RestartRedeliversAtMostOne ==
    (recovery.active /\ recovery.plain) =>
        /\ Cardinality(recovery.alerted \cap Notified) <= 1
        /\ pc = "tail" => (WindowSigs \ recovery.alerted) \subseteq Notified

\* a call of send_telegram_text that does not deliver: requests.post raises,
\* or the answer is not 200
DeliveryFails ==
    \/ SendRaises
    \/ SendReturns /\ cycle_log'[Len(cycle_log')].res = "non200"

\* C6: a call of send_telegram_text that does not deliver still moves last_sig
\* to the transaction's signature, goes on to save_last_signature and keeps the
\* rest of the batch for this cycle
C6_DeliveryFailureDoesNotBlock ==
    [][DeliveryFails =>
        /\ last_sig' = Head(new_batch).signature
        /\ pc' = "save"
        /\ new_batch' = new_batch]_vars

\* the end of a loop iteration, whatever the outcome of the fetch
IterationEnds ==
    \/ FetchRateLimited
    \/ FetchHttpError
    \/ FetchNetworkError
    \/ FetchOtherError
    \/ EnrichRaises
    \/ SendRaises
    \/ SaveRaises
    \/ TailSaveRaises
    \/ TailOk

\* C7: an iteration that ends when more than the heartbeat interval has passed
\* since the last heartbeat emits the heartbeat, whatever its fetch outcome
C7_HeartbeatWhateverOutcome ==
    [][(hb_due /\ IterationEnds) => outcome' = "ok_heartbeat"]_vars

RECURSIVE Pow2(_)
Pow2(n) == IF n <= 0 THEN 1 ELSE 2 * Pow2(n - 1)

\* C8: when the process is about to fetch, n 429 answers after the last fetch
\* that returned (or after the start) have left retry_delay at
\* min(20 * 2^n, 300), n = 0 included: a fetch that returned has put the delay
\* back to 20; and the n-th of these answers slept min(20 * 2^(n-1), 300)
C8_BackoffLadder ==
    pc = "fetch" =>
        /\ retry_delay = Min(POLL_INTERVAL_SEC * Pow2(rl_count), MAX_BACKOFF)
        /\ outcome = "ratelimited" =>
              /\ rl_count >= 1
              /\ last_sleep = Min(POLL_INTERVAL_SEC * Pow2(rl_count - 1), MAX_BACKOFF)

\* where the loop of poll_watch_wallet can be
LoopPcs == {"start", "fetch", "loop", "save", "tail"}

\* where control can be after a step taken at p (the process killed and
\* started again included)
FlowFrom(p) ==
    CASE p = "start" -> {"start", "fetch"}
      [] p = "fetch" -> {"fetch", "loop", "tail", "start"}
      [] p = "loop" -> {"loop", "save", "fetch", "start"}
      [] p = "save" -> {"save", "loop", "tail", "fetch", "start"}
      [] p = "tail" -> {"tail", "fetch", "start"}
      [] OTHER -> {}

\* C9: every iteration, whatever its fetch outcome and whatever is raised
\* inside its batch, ends in a sleep and at the fetch again; the process is
\* never anywhere but in the loop; and control only moves forward through an
\* iteration (fetch, batch, tail), a save that goes on with the batch having
\* shortened what is left of it, so that the fetch is reached again after
\* finitely many steps of the process
C9_EveryOutcomeReturnsToFetch ==
    [][/\ IterationEnds => (pc' = "fetch" /\ last_sleep' > 0)
       /\ pc' \in LoopPcs
       /\ pc' \in FlowFrom(pc)
       /\ (pc = "loop" /\ pc' = "save") => new_batch' = new_batch
       /\ (pc = "save" /\ pc' \in {"loop", "tail"}) =>
             /\ Len(new_batch') < Len(new_batch)
             /\ (pc' = "tail") = (new_batch' = <<>>)]_vars

\* C9 witness: an iteration ended in the handler of an exception raised inside
\* the batch and the process is back at the fetch
C9_Witness ==
    /\ pc = "fetch"
    /\ outcome \in {"network", "error"}
    /\ ~clean
    /\ last_sleep \in {NETWORK_RETRY_SEC, ERROR_RETRY_SEC}

\* C10: in one process lifetime fetch_token_metadata issues at most one remote
\* lookup per mint, whatever the first lookup gave; a mint whose first lookup
\* raised, gave an empty list, gave no list, gave a malformed entry or gave an
\* entry without name and symbol is cached as ("unknown", "unknown"), and every
\* call returns what the cache holds for its mint
C10_OneLookupPerMint ==
    /\ \A m \in Mints : meta_calls[m] <= 1
    /\ \A m \in Mints : (meta_first[m] = "none") = (token_cache[m] = NotCached)
    /\ \A m \in Mints :
          meta_first[m] \in FailedOutcomes => token_cache[m] = UnknownIdentity
    /\ meta_ret # NoCall => meta_ret.value = token_cache[meta_ret.mint]

\* C10 witness: three mints whose first lookups raised, gave an empty list and
\* gave an entry without fields; a later call for the first mint was answered
\* from the cache
C10_Witness ==
    /\ meta_first["Mx"] = "raise"
    /\ meta_first["My"] = "empty"
    /\ meta_first["Mz"] = "missing"
    /\ \A m \in Mints : meta_calls[m] = 1
    /\ meta_ret = [mint |-> "Mx", value |-> UnknownIdentity, remote |-> FALSE]

\* C11: an iteration whose fetch is answered with HTTP 429 calls
\* send_telegram_text for nothing and leaves last_sig and the cursor file as
\* they were; of the state of the loop only retry_delay changes, to
\* min(2 * retry_delay, 300)
C11_RateLimitedTouchesOnlyDelay ==
    [][FetchRateLimited =>
        /\ sent' = sent
        /\ last_sig' = last_sig
        /\ file' = file
        /\ hb_due' = hb_due
        /\ cycle_log' = <<>>
        /\ retry_delay' = Min(2 * retry_delay, MAX_BACKOFF)
        /\ last_sleep' = retry_delay]_vars

\* C11 witness: a 429 has just been handled by a process that holds a cursor,
\* in memory and in the file, and the delay has left its base
C11_Witness ==
    /\ pc = "fetch"
    /\ outcome = "ratelimited"
    /\ last_sig \in Sigs
    /\ file = last_sig
    /\ retry_delay = 2 * POLL_INTERVAL_SEC

\* C12: in a cycle the calls alternate: send_telegram_text for a transaction,
\* then save_last_signature of that same transaction, then the next
\* transaction; between a send and its save last_sig is already that
\* signature, after the save the file holds it; and the transactions come in
\* ascending order of timestamp
C12_NotifyThenPersistEach ==
    /\ \A i \in 1..Len(cycle_log) :
          IF i % 2 = 1
          THEN cycle_log[i].ev = "notify"
          ELSE cycle_log[i].ev = "persist" /\ cycle_log[i].sig = cycle_log[i - 1].sig
    /\ pc = "save" =>
          /\ Len(cycle_log) % 2 = 1
          /\ last_sig = cycle_log[Len(cycle_log)].sig
    /\ pc # "save" =>
          /\ Len(cycle_log) % 2 = 0
          /\ cycle_log # <<>> => file = cycle_log[Len(cycle_log)].sig
    /\ LET a == NotifiedSeq(cycle_log) IN
          \A i, j \in 1..Len(a) : i < j => TsOfSig(a[i]) <= TsOfSig(a[j])

\* C12 witness: a batch of two transactions of different timestamps has been
\* notified and persisted, one after the other
C12_Witness ==
    /\ pc = "tail"
    /\ Len(cycle_log) = 4
    /\ cycle_log[1].sig # cycle_log[3].sig
    /\ TsOfSig(cycle_log[1].sig) < TsOfSig(cycle_log[3].sig)
    /\ file = cycle_log[3].sig

\* C13: once the file holds a saved signature, load_last_signature gives that
\* signature until a later save_last_signature has completed: nothing else
\* changes what a load gives, the end of the process included
C13_SavedCursorStays ==
    [][load_last_signature(file) # None =>
        \/ load_last_signature(file') = load_last_signature(file)
        \/ Save /\ load_last_signature(file') = last_sig]_vars

\* C16: an iteration whose fetch fails with another HTTP error, a network
\* error or any other exception leaves retry_delay, last_sig and the cursor
\* file as they were, alerts nothing, and sleeps 10 s (5 s for the other
\* exceptions) whatever retry_delay is; the count of 429 answers it falls
\* between is not reset
C16_FailedFetchLeavesLadder ==
    [][(FetchHttpError \/ FetchNetworkError \/ FetchOtherError) =>
        /\ retry_delay' = retry_delay
        /\ rl_count' = rl_count
        /\ last_sig' = last_sig
        /\ file' = file
        /\ sent' = sent
        /\ last_sleep' = (IF outcome' = "error" THEN ERROR_RETRY_SEC
                          ELSE NETWORK_RETRY_SEC)]_vars

\* C16 witness: after two 429 answers a fetch failed with a network error: the
\* loop slept 10 s and the delay is still 80
C16_Witness ==
    /\ pc = "fetch"
    /\ outcome = "network"
    /\ clean
    /\ rl_count = 2
    /\ retry_delay = 4 * POLL_INTERVAL_SEC
    /\ last_sleep = NETWORK_RETRY_SEC

\* C17: whenever the process is about to fetch, last_sig is what
\* load_last_signature would give for the cursor file
C17_CursorInMemoryIsCursorOnDisk ==
    pc = "fetch" => last_sig = load_last_signature(file)

\* C18: retry_delay is never below POLL_INTERVAL_SEC and never above
\* MAX_BACKOFF
C18_DelayWithinBounds ==
    /\ POLL_INTERVAL_SEC <= retry_delay
    /\ retry_delay <= MAX_BACKOFF

\* C18 witness: a 429 that found the delay at 160 has left it at the cap
C18_Witness ==
    /\ outcome = "ratelimited"
    /\ last_sleep = 160
    /\ retry_delay = MAX_BACKOFF

\* the inline value of a field pair of a transfer: the nested one when the
\* transfer has it, else the flat one, else None
Inline(a, b) == IF a # None THEN a ELSE b

\* what the returned record must hold when it is taken from transfer t: t's
\* mint; t's inline name and symbol, and where t has none (or has the
\* placeholder "unknown") what the cache holds for t's mint, or "unknown"
TakenFrom(t) ==
    LET n == Inline(t.token_name, t.tokenName)
        y == Inline(t.token_symbol, t.tokenSymbol)
        cached == IF t.mint # None THEN token_cache[t.mint] ELSE UnknownIdentity
    IN  /\ details.mint = (IF t.mint # None THEN t.mint ELSE Unknown)
        /\ details.token_name = (IF n \notin {None, Unknown} THEN n ELSE cached[1])
        /\ details.ticker = (IF y \notin {None, Unknown} THEN y ELSE cached[2])

\* C14: the record extract_token_details returns is taken from the first
\* transfer whose fromUserAccount or toUserAccount is the watched wallet; from
\* the first transfer when no transfer is; and holds "unknown" for
\* token_name, ticker and mint when the transaction has no transfers
C14_TransferSelection ==
    details # NoDetails =>
        LET trs == transfers_of(enrich_tx)
            hits == {i \in 1..Len(trs) :
                        trs[i].fromUserAccount = WATCH_WALLET
                        \/ trs[i].toUserAccount = WATCH_WALLET}
        IN  /\ trs = <<>> =>
                  /\ details.token_name = Unknown
                  /\ details.ticker = Unknown
                  /\ details.mint = Unknown
            /\ \A k \in hits : (\A j \in hits : k <= j) => TakenFrom(trs[k])
            /\ (hits = {} /\ trs # <<>>) => TakenFrom(trs[1])
            /\ details.signature = enrich_tx.signature

\* C14 witness: of two transfers with different mints and different inline
\* names only the second touches the wallet, and the record holds the second
\* one's mint and name
C14_Witness ==
    /\ details # NoDetails
    /\ Len(transfers_of(enrich_tx)) = 2
    /\ ~touches_wallet(enrich_tx.tokenTransfers[1])
    /\ touches_wallet(enrich_tx.tokenTransfers[2])
    /\ enrich_tx.tokenTransfers[1].mint = "Mx"
    /\ enrich_tx.tokenTransfers[1].token_name = "TokA"
    /\ enrich_tx.tokenTransfers[2].mint = "My"
    /\ enrich_tx.tokenTransfers[2].tokenName = "TokB"
    /\ details.mint = "My"
    /\ details.token_name = "TokB"

\* C15: extract_token_details goes to fetch_token_metadata only when the
\* chosen transfer has a mint and lacks an inline name or an inline symbol;
\* with no transfer, no mint, or both inline fields there, it does not; and an
\* inline name or symbol that is there is what the record holds
C15_CacheOnlyForUnresolved ==
    details # NoDetails =>
        LET trs == transfers_of(enrich_tx) IN
        IF candidate(trs) = 0 THEN consulted = "no"
        ELSE LET t == trs[candidate(trs)]
                 n == Inline(t.token_name, t.tokenName)
                 y == Inline(t.token_symbol, t.tokenSymbol)
             IN  /\ consulted # "no" => (t.mint # None /\ (n = None \/ y = None))
                 /\ n # None => details.token_name = n
                 /\ y # None => details.ticker = y

\* C19: perform_swap_stub is called only from BUY_CONFIRM or SELL_CONFIRM,
\* with a stored mint that passes is_valid_mint and a stored amount above 0,
\* both written by a text since the last /start, and with the direction that
\* is the action stored in user_data (BUY from BUY_CONFIRM, SELL from
\* SELL_CONFIRM), whatever commands, texts and button presses came before.
C19_SwapOnlyFromConfirmedOrder ==
    last_swap # NoSwap =>
        /\ last_swap.state \in {"BUY_CONFIRM", "SELL_CONFIRM"}
        /\ {"action", "mint", "amount"} \subseteq DOMAIN last_swap.data
        /\ is_valid_mint(last_swap.data.mint)
        /\ last_swap.data.amount > 0
        /\ {"mint", "amount"} \subseteq last_swap.entered
        /\ last_swap.direction = last_swap.data.action
        /\ last_swap.state = last_swap.direction \o "_CONFIRM"
        /\ last_swap.ok

\* a SELL order was executed while a keyboard of an earlier BUY order is
\* still on screen, and a new conversation is under way
C19_Witness ==
    /\ last_swap # NoSwap
    /\ last_swap.direction = "SELL"
    /\ last_swap.data.mint.len = 32
    /\ keyboards["BUY"] > 0
    /\ conv_state = "BUY_ASK_AMOUNT"

\* C20: a handled press of Back (in CHOOSING, in the ask-mint and ask-amount
\* states, in BUY_CONFIRM and SELL_CONFIRM) leads to CHOOSING with action,
\* mint and amount gone from user_data, and does not end the conversation.
C20_BackReturnsToMenu ==
    [][(\E kind \in KeyboardKinds : Press(kind, "BACK")) =>
          /\ conv_state' = "CHOOSING"
          /\ DOMAIN user_data' \cap {"action", "mint", "amount"} = {}]_vars

====
